---------------------------- MODULE Spec2Model ----------------------------
(***************************************************************************)
(* A model of basaran/model.py: the StreamModel completion stream.         *)
(*                                                                         *)
(* StreamModel.__call__ is a Python generator function (its body holds     *)
(* `yield`), so calling it only creates the generator; the body runs on    *)
(* the consumer's pulls, each pull running up to the next `yield`, the end *)
(* of the body or an exception.  StreamModel.generate is a generator too,  *)
(* driven by the for-loop of __call__ inside the same pull.                *)
(*                                                                         *)
(* The neural model, the tokenizer and tenacity's retry are collaborators: *)
(* a forward pass either succeeds or raises, and the token it leads to is  *)
(* any vocabulary id the logits processor has not masked.                  *)
(* Log-probability diagnostics (logprobs, sample) and the text decoders    *)
(* do not influence control flow and are left out.                         *)
(*                                                                         *)
(* temperature and top_p are real numbers in the program; here they are    *)
(* counted in tenths, so that 10 stands for 1.0 and 5 for 0.5.             *)
(***************************************************************************)
EXTENDS Integers, Sequences, FiniteSets, TLC

\* ------------------------------------------------------------------ bounds
\* Largest replica count a request asks for.
MaxN == 2
\* Largest max_tokens a request asks for.
MaxMaxTokens == 2
\* Largest min_tokens a request asks for.
MaxMinTokens == 2
\* Longest prompt, in tokens.
MaxPromptLen == 1

\* --------------------------------------------------------------- optionals
\* Python's None and a present value, as sequences of length 0 and 1.
None == << >>
Some(x) == << x >>
IsNone(o) == o = << >>
Val(o) == o[1]

Max2(a, b) == IF a >= b THEN a ELSE b

\* The ids the model's distributions give weight to: an ordinary token and
\* the id every EOS configuration below holds.
Vocab == { 1, 2 }

\* ------------------------------------------------------------------ inputs
\* config.eos_token_id: absent, one id, or a list of ids.
EosConfigs ==
    { [kind |-> "none", id |-> 0, ids |-> << >>],
      [kind |-> "int", id |-> 2, ids |-> << >>],
      [kind |-> "list", id |-> 0, ids |-> << 2, 3 >>] }

\* The model's shared generation_config objects.
GenConfigs ==
    [ eos_token_id : EosConfigs,
      pad_token_id : { None, Some(0) },
      bos_token_id : { Some(1) },
      decoder_start_token_id : { None, Some(3) },
      min_new_tokens : { None },
      max_new_tokens : { None },
      temperature : { Some(10) },
      top_p : { Some(10) } ]

\* Token sequences of length 0..MaxPromptLen (a prompt's ids are all 1:
\* the prompt's content never decides anything).
PromptIds == { [j \in 1 .. k |-> 1] : k \in 0 .. MaxPromptLen }

\* The prompts a caller may pass: a string, a tensor of some dimension, or
\* anything else.
Prompts ==
    { [kind |-> "str", dim |-> 0, ids |-> << >>, text |-> << "a", "b" >>] }
    \cup { [kind |-> "tensor", dim |-> 1, ids |-> s, text |-> << >>] : s \in PromptIds }
    \cup { [kind |-> "tensor", dim |-> 2, ids |-> << >>, text |-> << >>],
           [kind |-> "other", dim |-> 0, ids |-> << >>, text |-> << >>] }

\* The calls of __call__ that leave temperature and top_p at their defaults
\* (lines 36-37).
Requests ==
    [ prompt : Prompts,
      min_tokens : 0 .. MaxMinTokens,
      max_tokens : 0 .. MaxMaxTokens,
      temperature : { 10 },
      top_p : { 10 },
      n : 0 .. MaxN,
      echo : BOOLEAN ]

\* The calls of __call__ that choose a sampling mode: temperature below, at
\* and above 0, top_p at 0 and at 1.0.
ModeRequests ==
    [ prompt : Prompts,
      min_tokens : { 0 },
      max_tokens : 0 .. MaxMaxTokens,
      temperature : { -5, 0, 5 },
      top_p : { 0, 10 },
      n : 0 .. MaxN,
      echo : BOOLEAN ]

NoRequest ==
    [ prompt |-> [kind |-> "other", dim |-> 0, ids |-> << >>, text |-> << >>],
      min_tokens |-> 0, max_tokens |-> 0, temperature |-> 10, top_p |-> 10,
      n |-> 0, echo |-> FALSE ]

\* The settings of a second stream opened on the same StreamModel: they
\* differ from each other and from those of Requests.
PeerRequests ==
    { [min_tokens |-> 0, max_tokens |-> 1, temperature |-> 0, top_p |-> 10],
      [min_tokens |-> 1, max_tokens |-> 2, temperature |-> 5, top_p |-> 5] }

NoPeerRequest ==
    [min_tokens |-> 0, max_tokens |-> 1, temperature |-> 10, top_p |-> 10]

\* The configs a stand-alone call of logits_processor may be given: each of
\* min_new_tokens, temperature and top_p absent, or on either side of, and
\* at, the thresholds of lines 149-171.
LpConfigs ==
    [ eos_token_id : EosConfigs,
      pad_token_id : { None },
      bos_token_id : { Some(1) },
      decoder_start_token_id : { None },
      min_new_tokens : { None } \cup { Some(m) : m \in 0 .. MaxMinTokens },
      max_new_tokens : { Some(1) },
      temperature : { None } \cup { Some(t) : t \in { -5, 0, 5, 10, 15 } },
      top_p : { None } \cup { Some(q) : q \in { -5, 0, 5, 10, 15 } } ]

NoLp == [config |-> CHOOSE c \in LpConfigs : TRUE, input_length |-> 0,
         called |-> FALSE, result |-> << >>]

VARIABLES
    generation_config,  \* self.model.generation_config (shared)
    is_encoder_decoder, \* self.model.config.is_encoder_decoder
    req,                \* the arguments of __call__
    pc,                 \* where the generator body stands
    running,            \* TRUE while a pull is being served
    pulls,              \* number of next() calls made by the consumer
    error,              \* the exception that ended the stream, if any
    call_input_ids,     \* __call__: input_ids
    finish_reasons,     \* __call__: finish_reasons
    tok_idx,            \* __call__: position of the echo loop in input_ids
    i,                  \* __call__: replica index of the running for-loop
    out,                \* the choices yielded so far
    config,             \* generate: the per-call copy of generation_config
    pad_token_id,       \* generate: pad_token_id
    eos_token_id,       \* generate: eos_token_id (None or a list)
    input_ids,          \* generate: input_ids, one row per replica
    input_length,       \* generate: input_length
    processor,          \* generate: the logits processor list
    unfinished,         \* generate: unfinished
    tokens,             \* generate: tokens of the last step
    status,             \* generate: status of the last step
    attempts,           \* infer: attempts made by the current call
    encoder_calls,      \* number of completed encoder runs
    peer,               \* a second stream opened on the same StreamModel
    lp                  \* a stand-alone call of logits_processor

vars ==
    << generation_config, is_encoder_decoder, req, pc, running, pulls, error,
       call_input_ids, finish_reasons, tok_idx, i, out, config, pad_token_id,
       eos_token_id, input_ids, input_length, processor, unfinished, tokens,
       status, attempts, encoder_calls, peer, lp >>

\* What no step of this stream changes: the model's shared objects, the
\* other stream and the stand-alone call.
modelVars == << generation_config, is_encoder_decoder, peer, lp >>
callVars == << call_input_ids, finish_reasons, tok_idx, i, out >>
genVars ==
    << config, pad_token_id, eos_token_id, input_ids, input_length, processor,
       unfinished, tokens, status >>

\* ------------------------------------------------- __call__: normalisation
\* Lines 50-54: "Ensure arguments are non-negative."
min_tokens == Max2(req.min_tokens, 0)
max_tokens == Max2(req.max_tokens, 1)
n == Max2(req.n, 1)
echo == req.echo
temperature == req.temperature
top_p == req.top_p

Replicas == 0 .. n - 1

\* tokenize (lines 120-123): the tokenizer's encode, one id per character.
CharId(c) == IF c = "a" THEN 1 ELSE 2
tokenize(text) == [j \in 1 .. Len(text) |-> CharId(text[j])]

\* Lines 43-48: the prompt is a string or a 1-d tensor.
PromptOk(p) == p.kind = "str" \/ (p.kind = "tensor" /\ p.dim = 1)
PromptInputIds(p) == IF p.kind = "str" THEN tokenize(p.text) ELSE p.ids

NoReason == "None"

\* map_choice(text, i, finish_reason=...) as yielded by __call__.
Choice(kind, idx, step, token, reason) ==
    [kind |-> kind, index |-> idx, step |-> step, token |-> token,
     finish_reason |-> reason]


\* ------------------------------------------------------ generate: set-up
\* Lines 192-194: config = copy.deepcopy(generation_config); config.update(
\* min_new_tokens=..., max_new_tokens=..., temperature=..., top_p=...): a
\* new object that differs from the shared one in the four keywords.
ConfigUpdate(gc, mn, mx, t, q) ==
    [gc EXCEPT !.min_new_tokens = Some(mn),
               !.max_new_tokens = Some(mx),
               !.temperature = Some(t),
               !.top_p = Some(q)]

\* The per-call config of this stream (lines 81-86 pass the four keywords).
ConfigCopy(gc) == ConfigUpdate(gc, min_tokens, max_tokens, temperature, top_p)

\* Lines 202-204: eos_token_id as None or a list; an int becomes [int].
EosList(e) ==
    IF e.kind = "none" THEN None
    ELSE IF e.kind = "int" THEN Some(<< e.id >>)
    ELSE Some(e.ids)

\* Lines 200, 205-206: the padding id, defaulting to the first EOS id.
PadId(cfg) ==
    IF IsNone(cfg.pad_token_id) /\ ~IsNone(EosList(cfg.eos_token_id))
    THEN Some(Val(EosList(cfg.eos_token_id))[1])
    ELSE cfg.pad_token_id

\* A seed that is 1 whatever EOS ids are configured.
SeedTokenOne(eos) == 1

\* Lines 208-213: "Generate from eos if no input is specified."
SeedToken(eos) == IF IsNone(eos) THEN 1 ELSE 1 * Val(eos)[1]
SeededRow(row, eos) == IF Len(row) = 0 THEN << SeedToken(eos) >> ELSE row

\* Lines 226-232: the decoder's one-token start row.
DecoderStart(cfg) ==
    IF IsNone(cfg.decoder_start_token_id)
    THEN Val(cfg.bos_token_id)
    ELSE Val(cfg.decoder_start_token_id)

\* Lines 148-160: the stage enforcing a minimum number of new tokens.
MinNewTokensStage(cfg, length) ==
    IF /\ ~IsNone(cfg.min_new_tokens)
       /\ Val(cfg.min_new_tokens) > 0
       /\ cfg.eos_token_id.kind # "none"
    THEN << [name |-> "MinNewTokensLength",
             prompt_length_to_skip |-> length,
             min_new_tokens |-> Val(cfg.min_new_tokens),
             eos_token_id |-> Val(EosList(cfg.eos_token_id))] >>
    ELSE << >>

\* Lines 162-168: the stage scaling the distribution (1.0 is 10 tenths).
TemperatureStage(cfg) ==
    IF /\ ~IsNone(cfg.temperature)
       /\ Val(cfg.temperature) > 0
       /\ Val(cfg.temperature) # 10
    THEN << [name |-> "Temperature", value |-> Val(cfg.temperature)] >>
    ELSE << >>

\* A nucleus stage that is also built for top_p = 1.0 (<= for <).
TopPStageInclusive(cfg) ==
    IF ~IsNone(cfg.top_p) /\ Val(cfg.top_p) > 0 /\ Val(cfg.top_p) <= 10
    THEN << [name |-> "TopP", value |-> Val(cfg.top_p)] >>
    ELSE << >>

\* Lines 170-172: the nucleus-sampling stage.
TopPStage(cfg) ==
    IF ~IsNone(cfg.top_p) /\ Val(cfg.top_p) > 0 /\ Val(cfg.top_p) < 10
    THEN << [name |-> "TopP", value |-> Val(cfg.top_p)] >>
    ELSE << >>

\* A pipeline whose minimum-new-tokens stage counts the prompt as new tokens
\* (prompt_length_to_skip = 0).
logits_processor_no_skip(cfg, length) ==
    MinNewTokensStage(cfg, 0) \o TemperatureStage(cfg) \o TopPStage(cfg)

\* logits_processor (lines 144-174): the stages in the order they are
\* appended.
logits_processor(cfg, length) ==
    MinNewTokensStage(cfg, length) \o TemperatureStage(cfg) \o TopPStage(cfg)

\* MinNewTokensLengthLogitsProcessor.__call__: while fewer than
\* min_new_tokens tokens follow the skipped prompt, every EOS id scores -inf.
\* The temperature stage divides the scores and the nucleus stage keeps the
\* best-scored ids: neither takes the best-scored id away, and which others
\* the nucleus drops depends on the scores.
StageMasked(stage, cur_len) ==
    IF /\ stage.name = "MinNewTokensLength"
       /\ cur_len - stage.prompt_length_to_skip < stage.min_new_tokens
    THEN { stage.eos_token_id[j] : j \in 1 .. Len(stage.eos_token_id) }
    ELSE {}

\* Line 256: processor(input_ids, logits); the ids left with score -inf.
Masked(proc, cur_len) ==
    UNION { StageMasked(proc[k], cur_len) : k \in 1 .. Len(proc) }

\* Lines 257-265: softmax, then argmax or multinomial: an id whose score is
\* -inf has probability 0 and is never chosen.
Selectable(proc, row) == Vocab \ Masked(proc, Len(row))

\* outputs.logits[:, -1, :] of one row, as the order of the ids by falling
\* score.
Rankings ==
    { s \in [1 .. Cardinality(Vocab) -> Vocab] :
        \A a, b \in DOMAIN s : a # b => s[a] # s[b] }

\* torch.argmax(probs): the best-scored id among those left unmasked.
ArgMax(ranking, allowed) ==
    ranking[CHOOSE k \in DOMAIN ranking :
                /\ ranking[k] \in allowed
                /\ \A j \in 1 .. k - 1 : ranking[j] \notin allowed]

\* A strategy test that asks for both conditions (and for or).
DeterministicBoth(cfg) ==
    /\ (~IsNone(cfg.top_p) /\ Val(cfg.top_p) <= 0)
    /\ (~IsNone(cfg.temperature) /\ Val(cfg.temperature) <= 0)

\* Lines 260-262: "Select deterministic or stochastic decoding strategy."
Deterministic(cfg) ==
    \/ (~IsNone(cfg.top_p) /\ Val(cfg.top_p) <= 0)
    \/ (~IsNone(cfg.temperature) /\ Val(cfg.temperature) <= 0)

\* Lines 260-265: the ids the step may select for a row: the arg-max, or
\* whatever torch.multinomial may draw.
TokenChoices(cfg, proc, row, ranking) ==
    IF Deterministic(cfg)
    THEN { ArgMax(ranking, Selectable(proc, row)) }
    ELSE Selectable(proc, row)

\* ------------------------------------------------------ generate: one step
\* A step that appends the selected token to finished rows too.
PadOverrideNever(tok, unf, pad) == tok

\* Lines 276-278: "Finished sequences should have their next token be a
\* padding."
PadOverride(tok, unf, pad) ==
    IF IsNone(pad) THEN tok ELSE tok * unf + Val(pad) * (1 - unf)

\* Line 293: not_eos = sum(tokens != i for i in eos_token_id).
NotEos(tok, ids) == Cardinality({ j \in 1 .. Len(ids) : tok # ids[j] })

\* Lines 291-294: "Mark sequences with eos tokens as finished."
MarkFinished(unf, tok, eos) ==
    IF IsNone(eos) THEN unf ELSE unf * NotEos(tok, Val(eos))

\* A cap that lets one more step through (> for >=).
ExceededMaxLengthLate(cur_len, length, cfg) ==
    cur_len - length > Val(cfg.max_new_tokens)

\* Line 298: the length cap is reached.
ExceededMaxLength(cur_len, length, cfg) ==
    cur_len - length >= Val(cfg.max_new_tokens)

\* A status that is -1 for every replica once the cap is reached.
StatusAllLength(unf, cur_len, length, cfg) ==
    IF cur_len - length >= Val(cfg.max_new_tokens) THEN -1 ELSE unf

\* Lines 296-299: "Set status to -1 if exceeded the max length."
StatusOf(unf, cur_len, length, cfg) ==
    IF ExceededMaxLength(cur_len, length, cfg) THEN 0 - unf ELSE unf

\* A loop that ends as soon as some replica has stopped (min for max).
AnyStopped(st) == \E r \in DOMAIN st : st[r] <= 0

\* Line 305: status.max() <= 0.
AllStopped(st) == \A r \in DOMAIN st : st[r] <= 0

\* ---------------------------------------------------------------- infer
\* Line 176: stop=stop_after_attempt(5).
StopAfterAttempt == 5

\* A retry that allows one attempt more.
RetryStopLate(made) == made > StopAfterAttempt

\* tenacity: after a failed attempt, give up once this many were made.
RetryStop(made) == made >= StopAfterAttempt

\* ------------------------------------------------ __call__: finish reason
\* Lines 90-95: the reason goes with the status, for a replica without one.
ReasonOf(st) ==
    IF st = 0 THEN "stop" ELSE IF st = -1 THEN "length" ELSE NoReason

\* The number of decode steps generate has completed: every row has grown
\* by one token per step (line 281).
Steps == Len(input_ids[0]) - input_length


\* ------------------------------------------------------------------- Init
\* A StreamModel has been constructed around a model; nothing was called.
\* A decoder-only model's config carries no decoder_start_token_id.
StreamInit ==
    /\ generation_config \in GenConfigs
    /\ is_encoder_decoder \in BOOLEAN
    /\ (~is_encoder_decoder => IsNone(generation_config.decoder_start_token_id))
    /\ req = NoRequest
    /\ pc = "new"
    /\ running = FALSE
    /\ pulls = 0
    /\ error = "none"
    /\ call_input_ids = << >>
    /\ finish_reasons = << >>
    /\ tok_idx = 1
    /\ i = 0
    /\ out = << >>
    /\ config = generation_config
    /\ pad_token_id = None
    /\ eos_token_id = None
    /\ input_ids = [r \in {0} |-> << >>]
    /\ input_length = 0
    /\ processor = << >>
    /\ unfinished = [r \in {0} |-> 1]
    /\ tokens = [r \in {0} |-> 0]
    /\ status = [r \in {0} |-> 1]
    /\ attempts = 0
    /\ encoder_calls = 0

\* No second stream has been opened on the model.
NoPeer ==
    [pc |-> "new", req |-> NoPeerRequest, config |-> generation_config,
     steps |-> 0, reason |-> NoReason]

Init ==
    /\ StreamInit
    /\ peer = NoPeer
    /\ lp = NoLp

\* ------------------------------------------------------------ the consumer
\* A call that starts running the body at once, as the call of an ordinary
\* function would.
CallEager(r) ==
    /\ pc = "new"
    /\ req' = r
    /\ pc' = "start"
    /\ running' = TRUE
    /\ UNCHANGED << modelVars, pulls, error, callVars, genVars, attempts,
                    encoder_calls >>

\* stream = model(prompt, ...): a generator function's call runs none of its
\* body; it returns the generator.
Call(r) ==
    /\ pc = "new"
    /\ req' = r
    /\ pc' = "start"
    /\ UNCHANGED << modelVars, running, pulls, error, callVars, genVars,
                    attempts, encoder_calls >>

\* next(stream) on a generator that is suspended at its start or at a yield.
Pull ==
    /\ pc \notin { "new", "done", "raised" }
    /\ ~running
    /\ running' = TRUE
    /\ pulls' = pulls + 1
    /\ UNCHANGED << modelVars, req, pc, error, callVars, genVars, attempts,
                    encoder_calls >>

\* ---------------------------------------------------------------- __call__
\* Lines 43-48, the else branch: raise TypeError.
RaiseTypeError ==
    /\ running /\ pc = "start"
    /\ ~PromptOk(req.prompt)
    /\ pc' = "raised"
    /\ error' = "TypeError"
    /\ running' = FALSE
    /\ UNCHANGED << modelVars, req, pulls, callVars, genVars, attempts,
                    encoder_calls >>

\* Lines 43-62: input_ids, the clamped arguments, finish_reasons, decoders.
Prepare ==
    /\ running /\ pc = "start"
    /\ PromptOk(req.prompt)
    /\ call_input_ids' = PromptInputIds(req.prompt)
    /\ finish_reasons' = [r \in Replicas |-> NoReason]
    /\ tok_idx' = 1
    /\ i' = 0
    /\ pc' = "echo"
    /\ UNCHANGED << modelVars, req, running, pulls, error, out, genVars,
                    attempts, encoder_calls >>

\* An echo loop that yields whatever the echo flag says.
EchoAlways == TRUE

\* Whether the echo loop of lines 65-71 yields at all.
EchoYields == echo

\* Lines 65-71 with echo set: the choice of prompt token tok_idx for replica
\* i is yielded, and the loops stand at the next (token, replica) pair.
EchoYield ==
    /\ running /\ pc = "echo"
    /\ EchoYields
    /\ tok_idx <= Len(call_input_ids)
    /\ out' = Append(out, Choice("echo", i, tok_idx, call_input_ids[tok_idx],
                                 NoReason))
    /\ IF i + 1 < n
       THEN i' = i + 1 /\ tok_idx' = tok_idx
       ELSE i' = 0 /\ tok_idx' = tok_idx + 1
    /\ running' = FALSE
    /\ UNCHANGED << modelVars, req, pc, pulls, error, call_input_ids,
                    finish_reasons, genVars, attempts, encoder_calls >>

\* A generate that updates the model's own generation_config with the
\* keywords (line 193, the deep copy, left out) and works on that object.
GenerateStartShared ==
    /\ running /\ pc = "echo"
    /\ (~EchoYields \/ tok_idx > Len(call_input_ids))
    /\ LET cfg == ConfigCopy(generation_config)
           eos == EosList(cfg.eos_token_id)
       IN /\ generation_config' = cfg
          /\ config' = cfg
          /\ eos_token_id' = eos
          /\ pad_token_id' = PadId(cfg)
          /\ input_ids' = [r \in Replicas |-> SeededRow(call_input_ids, eos)]
          /\ input_length' = Len(SeededRow(call_input_ids, eos))
    /\ tok_idx' = Len(call_input_ids) + 1
    /\ i' = 0
    /\ attempts' = 0
    /\ pc' = IF is_encoder_decoder THEN "encoder" ELSE "loop_setup"
    /\ UNCHANGED << is_encoder_decoder, peer, lp, req, running, pulls, error,
                    call_input_ids, finish_reasons, out, processor,
                    unfinished, tokens, status, encoder_calls >>

\* Lines 65-73: the echo loop is over (or yields nothing, echo being unset)
\* and generate(...) is called with input_ids[None, :].repeat(n, 1); lines
\* 187-213 of generate run: the sizes, the config copy, the special ids and
\* the seed of an empty prompt.
GenerateStart ==
    /\ running /\ pc = "echo"
    /\ (~EchoYields \/ tok_idx > Len(call_input_ids))
    /\ LET cfg == ConfigCopy(generation_config)
           eos == EosList(cfg.eos_token_id)
       IN /\ config' = cfg
          /\ eos_token_id' = eos
          /\ pad_token_id' = PadId(cfg)
          /\ input_ids' = [r \in Replicas |-> SeededRow(call_input_ids, eos)]
          /\ input_length' = Len(SeededRow(call_input_ids, eos))
    /\ tok_idx' = Len(call_input_ids) + 1
    /\ i' = 0
    /\ attempts' = 0
    /\ pc' = IF is_encoder_decoder THEN "encoder" ELSE "loop_setup"
    /\ UNCHANGED << modelVars, req, running, pulls, error, call_input_ids,
                    finish_reasons, out, processor, unfinished, tokens,
                    status, encoder_calls >>

\* A decoder set-up that keeps the prompt's length as input_length (line 232
\* left out).
EncoderDoneKeepLength ==
    /\ running /\ pc = "encoder_done"
    /\ input_ids' = [r \in Replicas |-> << 1 * DecoderStart(config) >>]
    /\ input_length' = input_length
    /\ attempts' = 0
    /\ encoder_calls' = encoder_calls + 1
    /\ pc' = "loop_setup"
    /\ UNCHANGED << modelVars, req, running, pulls, error, callVars, config,
                    pad_token_id, eos_token_id, processor, unfinished, tokens,
                    status >>

\* Lines 215-232: the encoder has returned; the decoder's inputs are
\* reinitialised.
EncoderDone ==
    /\ running /\ pc = "encoder_done"
    /\ input_ids' = [r \in Replicas |-> << 1 * DecoderStart(config) >>]
    /\ input_length' = 1
    /\ attempts' = 0
    /\ encoder_calls' = encoder_calls + 1
    /\ pc' = "loop_setup"
    /\ UNCHANGED << modelVars, req, running, pulls, error, callVars, config,
                    pad_token_id, eos_token_id, processor, unfinished, tokens,
                    status >>

\* Lines 234-238: the logits processor and the unfinished flags.
LoopSetup ==
    /\ running /\ pc = "loop_setup"
    /\ processor' = logits_processor(config, input_length)
    /\ unfinished' = [r \in Replicas |-> 1]
    /\ tokens' = [r \in Replicas |-> 0]
    /\ status' = [r \in Replicas |-> 1]
    /\ pc' = "infer"
    /\ UNCHANGED << modelVars, req, running, pulls, error, callVars, config,
                    pad_token_id, eos_token_id, input_ids, input_length,
                    attempts, encoder_calls >>

\* ------------------------------------------------------------------- infer
\* Lines 176-182: one attempt of model_fn(**kwargs) returns, and infer
\* returns its result: the call, and its count of attempts, is over.
InferSucceed ==
    /\ running /\ pc \in { "encoder", "infer" }
    /\ attempts' = 0
    /\ pc' = IF pc = "encoder" THEN "encoder_done" ELSE "step"
    /\ UNCHANGED << modelVars, req, running, pulls, error, callVars, genVars,
                    encoder_calls >>

\* Lines 176-182: one attempt raises, and tenacity waits and tries again.
InferRetry ==
    /\ running /\ pc \in { "encoder", "infer" }
    /\ ~RetryStop(attempts + 1)
    /\ attempts' = attempts + 1
    /\ UNCHANGED << modelVars, req, pc, running, pulls, error, callVars,
                    genVars, encoder_calls >>

\* A give-up that reports the error to the pull but leaves the generator
\* where it was, so that a later pull resumes the step.
InferGiveUpResumable ==
    /\ running /\ pc \in { "encoder", "infer" }
    /\ RetryStop(attempts + 1)
    /\ error = "none"
    /\ attempts' = 0
    /\ error' = "RetryError"
    /\ running' = FALSE
    /\ UNCHANGED << modelVars, req, pc, pulls, callVars, genVars,
                    encoder_calls >>

\* Lines 176-182: one attempt raises and tenacity gives up: the error leaves
\* infer, generate and __call__, and ends the stream.
InferGiveUp ==
    /\ running /\ pc \in { "encoder", "infer" }
    /\ RetryStop(attempts + 1)
    /\ attempts' = attempts + 1
    /\ pc' = "raised"
    /\ error' = "RetryError"
    /\ running' = FALSE
    /\ UNCHANGED << modelVars, req, pulls, callVars, genVars, encoder_calls >>

\* ---------------------------------------------------- generate: the loop
\* Lines 253-302: one decode step after a forward pass that succeeded, up to
\* the yield of its result to the for-loop of __call__ (line 88).  The model
\* is a function: rows with the same history get the same scores.
DecodeStep ==
    /\ running /\ pc = "step"
    /\ \E logits \in [Replicas -> Rankings], picks \in [Replicas -> Vocab] :
          /\ \A r, r2 \in Replicas :
                input_ids[r] = input_ids[r2] => logits[r] = logits[r2]
          /\ \A r \in Replicas :
                picks[r] \in TokenChoices(config, processor, input_ids[r],
                                          logits[r])
          /\ LET toks == [r \in Replicas |->
                            PadOverride(picks[r], unfinished[r], pad_token_id)]
                 ids == [r \in Replicas |-> Append(input_ids[r], toks[r])]
                 unf == [r \in Replicas |->
                            MarkFinished(unfinished[r], toks[r], eos_token_id)]
             IN /\ tokens' = toks
                /\ input_ids' = ids
                /\ unfinished' = unf
                /\ status' = [r \in Replicas |->
                                StatusOf(unf[r], Len(ids[r]), input_length, config)]
    /\ attempts' = 0
    /\ i' = 0
    /\ pc' = "emit"
    /\ UNCHANGED << modelVars, req, running, pulls, error, call_input_ids,
                    finish_reasons, tok_idx, out, config, pad_token_id,
                    eos_token_id, input_length, processor, encoder_calls >>

\* Lines 88-91: replica i already has its finish reason: continue.
EmitSkip ==
    /\ running /\ pc = "emit"
    /\ i < n
    /\ finish_reasons[i] # NoReason
    /\ i' = i + 1
    /\ UNCHANGED << modelVars, req, pc, running, pulls, error, call_input_ids,
                    finish_reasons, tok_idx, out, genVars, attempts,
                    encoder_calls >>

\* Lines 88-118: replica i's finish reason is updated and its choice yielded.
EmitYield ==
    /\ running /\ pc = "emit"
    /\ i < n
    /\ finish_reasons[i] = NoReason
    /\ finish_reasons' = [finish_reasons EXCEPT ![i] = ReasonOf(status[i])]
    /\ out' = Append(out, Choice("gen", i, Steps, tokens[i], ReasonOf(status[i])))
    /\ i' = i + 1
    /\ running' = FALSE
    /\ UNCHANGED << modelVars, req, pc, pulls, error, call_input_ids, tok_idx,
                    genVars, attempts, encoder_calls >>

\* A loop that goes round as soon as the first replica's choice is out,
\* without waiting for the for-loop of line 88 to end.
NextStepEarly ==
    /\ running /\ pc = "emit"
    /\ i >= 1
    /\ ~AllStopped(status)
    /\ pc' = "infer"
    /\ UNCHANGED << modelVars, req, running, pulls, error, callVars, genVars,
                    attempts, encoder_calls >>

\* Lines 304-306 with status.max() > 0: the while loop goes round.
NextStep ==
    /\ running /\ pc = "emit"
    /\ i >= n
    /\ ~AllStopped(status)
    /\ pc' = "infer"
    /\ UNCHANGED << modelVars, req, running, pulls, error, callVars, genVars,
                    attempts, encoder_calls >>

\* Lines 304-306 with status.max() <= 0: break; generate is exhausted, the
\* for-loop of line 74 ends and so does the stream.
Finish ==
    /\ running /\ pc = "emit"
    /\ i >= n
    /\ AllStopped(status)
    /\ pc' = "done"
    /\ running' = FALSE
    /\ UNCHANGED << modelVars, req, pulls, error, callVars, genVars, attempts,
                    encoder_calls >>

Next ==
    \/ \E r \in Requests : Call(r)
    \/ Pull
    \/ RaiseTypeError
    \/ Prepare
    \/ EchoYield
    \/ GenerateStart
    \/ EncoderDone
    \/ LoopSetup
    \/ InferSucceed
    \/ InferRetry
    \/ InferGiveUp
    \/ DecodeStep
    \/ EmitSkip
    \/ EmitYield
    \/ NextStep
    \/ Finish

Spec == Init /\ [][Next]_vars

\* The consumer keeps pulling and the program keeps running.
FairSpec == Spec /\ WF_vars(Next)

\* ------------------------------------------------- the sampling modes
\* The stream under the calls that choose a sampling mode.
ModeNext ==
    \/ \E r \in ModeRequests : Call(r)
    \/ Pull
    \/ RaiseTypeError
    \/ Prepare
    \/ EchoYield
    \/ GenerateStart
    \/ EncoderDone
    \/ LoopSetup
    \/ InferSucceed
    \/ InferRetry
    \/ InferGiveUp
    \/ DecodeStep
    \/ EmitSkip
    \/ EmitYield
    \/ NextStep
    \/ Finish

ModeSpec == Init /\ [][ModeNext]_vars

\* ------------------------------------------------------ a second stream
\* Everything of this stream: the other stream leaves it alone.
streamVars ==
    << req, pc, running, pulls, error, callVars, genVars, attempts,
       encoder_calls >>

\* The other stream, one replica on a one-token prompt, in summary: each of
\* its pulls runs its generator to the next yield (lines 240-302), or to its
\* end when that choice carried a finish reason.  Python runs one thing at a
\* time, so its pulls fall between the pulls of this stream.
PeerRow(p) == [j \in 1 .. 1 + p.steps |-> 1]

PeerStepResult(p, cfg, tok) ==
    LET unf == MarkFinished(1, tok, EosList(cfg.eos_token_id))
        st == StatusOf(unf, Len(PeerRow(p)) + 1, 1, cfg)
    IN [p EXCEPT !.config = cfg,
                 !.steps = p.steps + 1,
                 !.reason = ReasonOf(st),
                 !.pc = IF st <= 0 THEN "done" ELSE "loop"]

\* other = model(prompt, min_tokens=..., max_tokens=..., temperature=...,
\* top_p=...).
PeerCall(r) ==
    /\ ~running
    /\ peer.pc = "new"
    /\ peer' = [peer EXCEPT !.pc = "start", !.req = r]
    /\ UNCHANGED << generation_config, is_encoder_decoder, lp, streamVars >>

\* The first next(other): generate takes its copy of the shared config
\* (lines 192-194) and makes its first step.
PeerFirstPull ==
    /\ ~running
    /\ peer.pc = "start"
    /\ LET cfg == ConfigUpdate(generation_config, peer.req.min_tokens,
                               peer.req.max_tokens, peer.req.temperature,
                               peer.req.top_p)
       IN \E tok \in Selectable(logits_processor(cfg, 1), PeerRow(peer)) :
             peer' = PeerStepResult(peer, cfg, tok)
    /\ UNCHANGED << generation_config, is_encoder_decoder, lp, streamVars >>

\* A later next(other): one more step under the other stream's own config.
PeerPull ==
    /\ ~running
    /\ peer.pc = "loop"
    /\ \E tok \in Selectable(logits_processor(peer.config, 1), PeerRow(peer)) :
          peer' = PeerStepResult(peer, peer.config, tok)
    /\ UNCHANGED << generation_config, is_encoder_decoder, lp, streamVars >>

\* The model's generation_config carries no padding id.
PairInit == Init /\ IsNone(generation_config.pad_token_id)

PairNext ==
    \/ \E r \in Requests : Call(r)
    \/ Pull
    \/ RaiseTypeError
    \/ Prepare
    \/ EchoYield
    \/ GenerateStart
    \/ EncoderDone
    \/ LoopSetup
    \/ InferSucceed
    \/ InferRetry
    \/ InferGiveUp
    \/ DecodeStep
    \/ EmitSkip
    \/ EmitYield
    \/ NextStep
    \/ Finish
    \/ \E r \in PeerRequests : PeerCall(r)
    \/ PeerFirstPull
    \/ PeerPull

\* Two streams on one StreamModel, their pulls interleaved in any order.
PairSpec == PairInit /\ [][PairNext]_vars

\* ------------------------------------- logits_processor, called by itself
\* Any config and input length are handed to logits_processor.
LpInit ==
    /\ StreamInit
    /\ generation_config.eos_token_id.kind = "none"
    /\ IsNone(generation_config.pad_token_id)
    /\ ~is_encoder_decoder
    /\ peer = NoPeer
    /\ lp \in [config : LpConfigs, input_length : { 1, 2 },
                called : { FALSE }, result : { << >> }]

\* processor = self.logits_processor(config, input_length).
LpCall ==
    /\ ~lp.called
    /\ lp' = [lp EXCEPT !.called = TRUE,
                        !.result = logits_processor(lp.config, lp.input_length)]
    /\ UNCHANGED << generation_config, is_encoder_decoder, peer, streamVars >>

LpNext == LpCall

LpSpec == LpInit /\ [][LpNext]_vars


\* ------------------------------------------------------------ the stream
\* The positions in out of the generated-token choices of replica r, and of
\* its echoed prompt tokens.
GenIdx(r) == { k \in 1 .. Len(out) : out[k].kind = "gen" /\ out[k].index = r }
EchoIdx(r) == { k \in 1 .. Len(out) : out[k].kind = "echo" /\ out[k].index = r }
GenCount(r) == Cardinality(GenIdx(r))

\* The ids of the configured end-of-sequence tokens.
EosIds == IF IsNone(eos_token_id) THEN {}
          ELSE { Val(eos_token_id)[j] : j \in 1 .. Len(Val(eos_token_id)) }

\* A decode step has just ended and none of its choices is out yet.
StepJustDone == pc = "emit" /\ running /\ i = 0

\* The step that just ended has reached the length cap.
CapReached == ExceededMaxLength(Len(input_ids[0]), input_length, config)

\* ----------------------------------------------------------------- claims

\* C1: each replica's finish reason is set once, to 'stop' or 'length', by
\* the replica's last choice, and a stream that is exhausted without error
\* has set it for every replica.  (Stated as the claim has it; the code
\* breaks it when several EOS ids are configured.)
C1_FinishReasonOnce ==
    \A r \in DOMAIN finish_reasons :
        /\ finish_reasons[r] \in { NoReason, "stop", "length" }
        /\ \A k \in GenIdx(r) :
              out[k].finish_reason # NoReason =>
                  /\ \A k2 \in GenIdx(r) : k2 <= k
                  /\ out[k].finish_reason = finish_reasons[r]
        /\ finish_reasons[r] # NoReason =>
              \E k \in GenIdx(r) : out[k].finish_reason = finish_reasons[r]
        /\ pc = "done" => finish_reasons[r] \in { "stop", "length" }

\* C2: an unfinished replica whose token at a step before the length cap is
\* one of the configured EOS ids has status 0 on that step, its choice of
\* that step carries 'stop', and it is its last choice.  (Stated as the
\* claim has it; the code breaks it for a list of several EOS ids.)
C2_EosStops ==
    /\ (StepJustDone /\ ~CapReached) =>
          \A r \in Replicas :
              (finish_reasons[r] = NoReason /\ tokens[r] \in EosIds)
                  => status[r] = 0
    /\ \A k \in 1 .. Len(out) :
          (/\ out[k].kind = "gen"
           /\ out[k].token \in EosIds
           /\ out[k].step < max_tokens)
              => /\ out[k].finish_reason = "stop"
                 /\ \A k2 \in GenIdx(out[k].index) : k2 <= k


C4_AtMostMaxTokens ==
    /\ max_tokens >= 1
    /\ \A r \in DOMAIN finish_reasons : GenCount(r) <= max_tokens
    /\ Steps <= max_tokens
    /\ ~IsNone(config.max_new_tokens) =>
          (Val(config.max_new_tokens) = max_tokens
           /\ Steps <= Val(config.max_new_tokens))

\* C4's case: two replicas have each been given max_tokens = 2 choices.
C4_Witness ==
    /\ pc = "done"
    /\ n = 2 /\ max_tokens = 2
    /\ GenCount(0) = 2 /\ GenCount(1) = 2


\* C5: after a step that leaves some replica with status 1 generate makes
\* another forward pass; after the first step that leaves every status <= 0
\* it ends, with no forward pass and no step result after that; and a stream
\* that is pulled on ends, exhausted or with an error.
C5_LoopUntilAllStopped ==
    /\ [](pc \in { "infer", "step" } => ~AllStopped(status))
    /\ [][ (pc = "emit" /\ running /\ i >= n) =>
              /\ (\E r \in Replicas : status[r] = 1) => pc' = "infer"
              /\ (\A r \in Replicas : status[r] <= 0) =>
                    (pc' = "done" /\ UNCHANGED << input_ids, out, attempts >>)
         ]_vars
    /\ [][ pc # "done" ]_vars
    /\ <>(pc = "done" \/ pc = "raised")

\* C5's case: one replica stopped at step 1, the other kept the loop going
\* to step 2, after which the stream was exhausted.
C5_Witness ==
    /\ pc = "done"
    /\ n = 2 /\ Steps = 2
    /\ GenCount(0) = 1 /\ finish_reasons[0] = "stop"
    /\ GenCount(1) = 2


\* C6: with min_tokens = m > 0 and an EOS id configured, no EOS id can be
\* selected on a step before which fewer than m tokens were generated; no
\* replica is given 'stop' with fewer than m generated choices; and a replica
\* whose stream ends with fewer than m has been stopped by the length cap.
C6_MinTokensFloor ==
    /\ \A r \in DOMAIN finish_reasons :
          finish_reasons[r] = "stop" => GenCount(r) >= min_tokens
    /\ (/\ pc \in { "infer", "step" }
        /\ min_tokens > 0
        /\ EosIds # {}
        /\ Steps < min_tokens) =>
          \A r \in Replicas :
              Selectable(processor, input_ids[r]) \cap EosIds = {}
    /\ pc = "done" =>
          \A r \in Replicas :
              GenCount(r) < min_tokens =>
                  (Steps >= max_tokens /\ finish_reasons[r] # "stop")

\* C6's case: the floor is 1, the EOS id was masked on step 1 and chosen on
\* step 2, where the replica was given 'stop'.
C6_Witness ==
    /\ pc = "done"
    /\ min_tokens = 1 /\ max_tokens = 2
    /\ EosIds # {}
    /\ finish_reasons[0] = "stop" /\ GenCount(0) = 2

\* C7: a prompt of the wrong type makes the call itself raise TypeError,
\* before any pull on a stream.  (Stated as the claim has it; the code
\* raises on the first pull.)
C7_TypeErrorAtCall == error = "TypeError" => pulls = 0

\* C8: one call of infer makes at most 5 attempts; it retries after a failed
\* attempt while fewer than 5 were made, returns with the first attempt that
\* succeeds, and raises exactly when the fifth attempt has failed.
C8_InferAttempts ==
    /\ [](pc \in { "encoder", "infer" } => attempts \in 0 .. 4)
    /\ [][ (pc = "encoder" \/ pc = "infer") =>
              /\ \/ (pc' \in { "encoder_done", "step" } /\ attempts' = 0)
                 \/ (attempts' = attempts + 1 /\ pc' \in { pc, "raised" })
              /\ (pc' = "raised") <=> (attempts' = 5)
              /\ (pc' = "raised") => (error' = "RetryError" /\ running' = FALSE)
         ]_vars

\* C8's case: the second forward pass of a stream failed five times.
C8_Witness ==
    /\ pc = "raised" /\ error = "RetryError"
    /\ attempts = 5
    /\ Steps = 1

\* Every choice of the steps 1..s is out: replica r has a choice for step t
\* exactly when none of its earlier choices carries a finish reason; and no
\* choice of a later step is.
ChoicesOfSteps(s) ==
    \A r \in Replicas :
        /\ \A k \in GenIdx(r) : out[k].step \in 1 .. s
        /\ \A t \in 1 .. s :
              (\E k \in GenIdx(r) : out[k].step = t)
                  <=> (\A k \in GenIdx(r) :
                          out[k].step < t => out[k].finish_reason = NoReason)

\* C9: when a forward pass has exhausted its retries the stream has ended
\* with that error: the choices of all completed steps are out, none of the
\* failed step is, and nothing happens afterwards.
C9_ErrorEndsStream ==
    /\ [](error = "RetryError" =>
             (pc = "raised" /\ ~running /\ ChoicesOfSteps(Steps)))
    /\ [][ error # "RetryError" ]_vars

\* C9's case: with two replicas, step 1's two choices are out and the
\* forward pass of step 2 has failed for good.
C9_Witness ==
    /\ error = "RetryError"
    /\ n = 2 /\ Steps = 1
    /\ GenCount(0) = 1 /\ GenCount(1) = 1

\* C10: with echo set, the p * n echoed choices, one per prompt token and
\* replica and none with a finish reason, are out before the first generated
\* choice; with echo unset no prompt token is ever echoed.
C10_EchoBeforeGenerated ==
    LET p == Len(call_input_ids)
        gens == { k \in 1 .. Len(out) : out[k].kind = "gen" }
        echoes == { k \in 1 .. Len(out) : out[k].kind = "echo" }
    IN /\ \A k \in echoes :
             /\ out[k].finish_reason = NoReason
             /\ \A g \in gens : k < g
       /\ ~echo => echoes = {}
       /\ (echo /\ gens # {}) =>
             /\ Cardinality(echoes) = p * n
             /\ \A t \in 1 .. p : \A r \in Replicas :
                   Cardinality({ k \in EchoIdx(r) : out[k].step = t }) = 1

\* C10's case: a prompt of two tokens has been echoed to two replicas and a
\* generated choice has followed.
C10_Witness ==
    /\ echo /\ n = 2 /\ Len(call_input_ids) = 2
    /\ \E k \in 1 .. Len(out) : out[k].kind = "gen"

\* C11: the choices come out in step order and, within a step, in strictly
\* increasing replica index over the replicas that still emit; no choice of
\* a later step precedes one of an earlier step; every echoed prompt choice
\* precedes every generated one.
C11_StepAndReplicaOrder ==
    /\ \A k \in 1 .. Len(out) - 1 :
          /\ out[k].kind = "gen" => out[k + 1].kind = "gen"
          /\ out[k].kind = out[k + 1].kind =>
                \/ out[k + 1].step = out[k].step + 1
                \/ (/\ out[k + 1].step = out[k].step
                    /\ out[k + 1].index > out[k].index)
    /\ \A k \in 1 .. Len(out) :
          out[k].kind = "gen" =>
              \A r \in Replicas : \A t \in 1 .. out[k].step :
                  (/\ (t < out[k].step \/ r < out[k].index)
                   /\ \A j \in GenIdx(r) :
                         out[j].step < t => out[j].finish_reason = NoReason)
                      => \E j \in GenIdx(r) : j < k /\ out[j].step = t
    /\ \A k \in 1 .. Len(out) :
          out[k].kind = "gen" =>
              \A j \in GenIdx(out[k].index) :
                  j < k => (out[j].step < out[k].step
                            /\ out[j].finish_reason = NoReason)

\* C11's case: after the echoed prompt, step 1 gave a choice to replicas 0
\* and 1 in that order, and step 2 to replica 1 alone, replica 0 having
\* stopped.
C11_Witness ==
    /\ pc = "done"
    /\ echo /\ Len(call_input_ids) >= 1
    /\ n = 2 /\ Steps = 2
    /\ GenCount(0) = 1 /\ GenCount(1) = 2

\* generate has taken its per-call config.
StreamStarted ==
    \/ pc \in { "encoder", "encoder_done", "loop_setup", "infer", "step",
                 "emit", "done" }
    \/ (pc = "raised" /\ error = "RetryError")

\* C12: no step of either stream changes the model's shared
\* generation_config; each stream's config is the shared one with that
\* stream's own min_new_tokens, max_new_tokens, temperature and top_p, however
\* the pulls on the two streams interleave, so that each stream's length cap,
\* minimum length and sampling mode are those of its own request.
C12_ConfigIsolation ==
    /\ [][ generation_config' = generation_config ]_vars
    /\ [](StreamStarted =>
             /\ config.min_new_tokens = Some(Max2(req.min_tokens, 0))
             /\ config.max_new_tokens = Some(Max2(req.max_tokens, 1))
             /\ config.temperature = Some(req.temperature)
             /\ config.top_p = Some(req.top_p)
             /\ config.eos_token_id = generation_config.eos_token_id
             /\ config.pad_token_id = generation_config.pad_token_id
             /\ config.bos_token_id = generation_config.bos_token_id
             /\ config.decoder_start_token_id
                    = generation_config.decoder_start_token_id
             /\ Steps <= Max2(req.max_tokens, 1)
             /\ \A r \in Replicas :
                   finish_reasons[r] = "stop" => GenCount(r) >= req.min_tokens
             /\ Deterministic(config)
                    <=> (req.temperature <= 0 \/ req.top_p <= 0))
    /\ [](peer.pc \in { "loop", "done" } =>
             /\ peer.config.min_new_tokens = Some(peer.req.min_tokens)
             /\ peer.config.max_new_tokens = Some(peer.req.max_tokens)
             /\ peer.config.temperature = Some(peer.req.temperature)
             /\ peer.config.top_p = Some(peer.req.top_p)
             /\ peer.config.eos_token_id = generation_config.eos_token_id
             /\ peer.config.pad_token_id = generation_config.pad_token_id
             /\ peer.steps <= peer.req.max_tokens
             /\ (peer.pc = "loop" => peer.steps < peer.req.max_tokens)
             /\ (peer.reason = "stop" => peer.steps >= peer.req.min_tokens)
             /\ Deterministic(peer.config)
                    <=> (peer.req.temperature <= 0 \/ peer.req.top_p <= 0))

\* C12's case: both streams are open and one step into their loops, this one
\* with no minimum and the default temperature, the other one with a minimum
\* of 1 and temperature 0.5.
C12_Witness ==
    /\ pc = "emit" /\ ~running /\ Steps = 1
    /\ config.min_new_tokens = Some(0) /\ config.temperature = Some(10)
    /\ peer.pc = "loop" /\ peer.steps = 1
    /\ peer.config.min_new_tokens = Some(1)
    /\ peer.config.temperature = Some(5)

\* C13: with temperature <= 0 or top_p <= 0 every row's token is the arg-max
\* of its processed scores, with no random draw: the scores decide it, so
\* that rows with the same history (runs against the same model with the
\* same prompt and config) have the same tokens, statuses and finish reasons
\* for ever; otherwise the token is whatever the draw gives among the ids the
\* processors leave with a probability.
C13_ArgMaxIsDeterministic ==
    /\ (pc = "step" =>
             \A r \in Replicas : \A rk \in Rankings :
                 LET choices == TokenChoices(config, processor, input_ids[r], rk)
                     unmasked == Vocab \ Masked(processor, Len(input_ids[r]))
                 IN IF req.temperature <= 0 \/ req.top_p <= 0
                    THEN \E k \in 1 .. Len(rk) :
                            /\ choices = { rk[k] }
                            /\ rk[k] \in unmasked
                            /\ \A j \in 1 .. k - 1 : rk[j] \notin unmasked
                    ELSE choices = unmasked)
    /\ ((StreamStarted /\ (req.temperature <= 0 \/ req.top_p <= 0)) =>
             \A r, r2 \in Replicas :
                 /\ input_ids[r] = input_ids[r2]
                 /\ (pc \in { "infer", "step", "emit", "done" } =>
                        /\ tokens[r] = tokens[r2]
                        /\ status[r] = status[r2])
                 /\ (pc = "done" => finish_reasons[r] = finish_reasons[r2]))

\* C13's case: two replicas were decoded for two steps at temperature 0.
C13_Witness ==
    /\ pc = "done"
    /\ req.temperature = 0 /\ req.top_p = 10
    /\ n = 2 /\ Steps = 2
    /\ GenCount(0) = 2 /\ GenCount(1) = 2

\* C14: when no replica's token is ever an EOS id (or none is configured), a
\* stream that is exhausted has given each of the n replicas exactly
\* m = max_tokens generated choices, the first m - 1 without a finish reason
\* and the m-th with 'length': n * m in all.  (Stated as the claim has it;
\* the code breaks it when several EOS ids are configured.)
C14_ExactlyMaxTokens ==
    LET gens == { k \in 1 .. Len(out) : out[k].kind = "gen" }
    IN (pc = "done" /\ \A k \in gens : out[k].token \notin EosIds) =>
          /\ Cardinality(gens) = n * max_tokens
          /\ \A r \in Replicas :
                /\ GenCount(r) = max_tokens
                /\ \A k \in GenIdx(r) :
                      /\ out[k].step < max_tokens
                            => out[k].finish_reason = NoReason
                      /\ out[k].step = max_tokens
                            => out[k].finish_reason = "length"

\* C15: in every step result each replica's status is 1, 0 or -1, whatever
\* the EOS configuration (none, one id, several ids); equivalently each
\* replica's unfinished flag is 0 or 1.  (Stated as the claim has it; the
\* code breaks it when several EOS ids are configured.)
C15_StatusDomain ==
    /\ \A r \in DOMAIN status : status[r] \in { 1, 0, -1 }
    /\ \A r \in DOMAIN unfinished : unfinished[r] \in { 0, 1 }

\* The history generate starts its loop with: the prompt, the seed of an
\* empty prompt, or the decoder's start token.
InitialRow ==
    IF is_encoder_decoder THEN << DecoderStart(config) >>
    ELSE SeededRow(call_input_ids, eos_token_id)

C17_EmptyPromptSeed ==
    (StreamStarted /\ Len(call_input_ids) = 0) =>
        LET e == generation_config.eos_token_id
            seed == IF e.kind = "none" THEN 1
                    ELSE IF e.kind = "int" THEN e.id ELSE e.ids[1]
        IN /\ input_length = 1
           /\ (\/ pc = "encoder"
               \/ (/\ ~is_encoder_decoder
                   /\ pc \in { "loop_setup", "infer", "step" }
                   /\ Steps = 0)) =>
                 /\ DOMAIN input_ids = 0 .. n - 1
                 /\ \A r \in Replicas : input_ids[r] = << seed >>
           /\ (pc = "infer" /\ Steps = 0) =>
                 \A r \in Replicas : unfinished[r] = 1 /\ status[r] = 1
           /\ \A k \in 1 .. Len(out) : out[k].kind # "echo"
           /\ Steps <= max_tokens
           /\ pc = "done" =>
                 \A r \in Replicas :
                     /\ GenCount(r) >= 1
                     /\ max_tokens = 1 => GenCount(r) = 1

\* C17's case: an empty prompt with echo set and max_tokens = 1 on a model
\* whose EOS id is 2: both replicas were seeded with 2 and given one
\* generated choice each, and nothing was echoed.
C17_Witness ==
    /\ pc = "done"
    /\ req.prompt.kind = "tensor" /\ Len(call_input_ids) = 0
    /\ echo /\ n = 2 /\ max_tokens = 1
    /\ ~is_encoder_decoder
    /\ generation_config.eos_token_id.kind = "int"
    /\ input_ids[0][1] = 2 /\ input_ids[1][1] = 2
    /\ GenCount(0) = 1 /\ GenCount(1) = 1

\* C18: on an encoder-decoder model the encoder is run once, through infer
\* and its retries, before the first decode step, and never again; every
\* row is then the one token decoder_start_token_id, or bos_token_id when
\* that is not configured; and the length cap and the minimum-length floor
\* count from that one-token history, whatever the prompt's length.  On a
\* decoder-only model no encoder is run.
C18_EncoderOnce ==
    /\ [](/\ encoder_calls <= 1
          /\ pc \in { "encoder", "encoder_done" } =>
                (is_encoder_decoder /\ encoder_calls = 0)
          /\ pc \in { "loop_setup", "infer", "step", "emit", "done" } =>
                encoder_calls = (IF is_encoder_decoder THEN 1 ELSE 0)
          /\ (is_encoder_decoder
              /\ pc \in { "loop_setup", "infer", "step", "emit", "done" }) =>
                LET gc == generation_config
                    start == IF IsNone(gc.decoder_start_token_id)
                             THEN Val(gc.bos_token_id)
                             ELSE Val(gc.decoder_start_token_id)
                IN /\ input_length = 1
                   /\ \A r \in Replicas :
                         /\ input_ids[r][1] = start
                         /\ Len(input_ids[r]) - 1 <= max_tokens
                         /\ (pc = "done" /\ gc.eos_token_id.kind = "none") =>
                               Len(input_ids[r]) - 1 = max_tokens
                         /\ finish_reasons[r] = "stop" =>
                               Len(input_ids[r]) - 1 >= min_tokens
                   /\ pc # "loop_setup" =>
                         \A k \in 1 .. Len(processor) :
                             processor[k].name = "MinNewTokensLength" =>
                                 processor[k].prompt_length_to_skip = 1)
    /\ [][ pc = "encoder" =>
              \/ (pc' = "encoder_done" /\ UNCHANGED encoder_calls)
              \/ (attempts' = attempts + 1 /\ pc' = "encoder")
              \/ (attempts' = StopAfterAttempt /\ pc' = "raised")
         ]_vars
    /\ [][ encoder_calls' # encoder_calls =>
              (pc = "encoder_done" /\ pc' = "loop_setup"
               /\ encoder_calls' = encoder_calls + 1) ]_vars

\* C18's case: a two-token prompt on an encoder-decoder model with
\* decoder_start_token_id = 3 and max_tokens = 2: the encoder ran once and
\* the stream ended with rows of the start token and two generated tokens.
C18_Witness ==
    /\ pc = "done"
    /\ is_encoder_decoder /\ encoder_calls = 1
    /\ Len(call_input_ids) = 2 /\ max_tokens = 2
    /\ generation_config.decoder_start_token_id = Some(3)
    /\ Len(input_ids[0]) = 3 /\ input_ids[0][1] = 3

\* C19: logits_processor returns a sub-sequence of (minimum-new-tokens,
\* temperature, top-p), in that order: the first exactly when min_new_tokens
\* is > 0 and an EOS id is configured, the second exactly when temperature is
\* > 0 and not 1.0, the third exactly when 0 < top_p < 1; top_p = 1.0 and
\* top_p <= 0 both leave the nucleus filter out.
C19_ProcessorPipeline ==
    lp.called =>
        LET c == lp.config
            res == lp.result
            hasMin == /\ c.min_new_tokens # None
                      /\ c.min_new_tokens[1] > 0
                      /\ c.eos_token_id.kind \in { "int", "list" }
            hasTemp == /\ c.temperature # None
                       /\ c.temperature[1] > 0
                       /\ c.temperature[1] # 10
            hasTopP == /\ c.top_p # None
                       /\ c.top_p[1] > 0
                       /\ c.top_p[1] < 10
            names == (IF hasMin THEN << "MinNewTokensLength" >> ELSE << >>)
                     \o (IF hasTemp THEN << "Temperature" >> ELSE << >>)
                     \o (IF hasTopP THEN << "TopP" >> ELSE << >>)
        IN /\ [k \in 1 .. Len(res) |-> res[k].name] = names
           /\ \A k \in 1 .. Len(res) :
                 /\ res[k].name = "MinNewTokensLength" =>
                       /\ res[k].min_new_tokens = c.min_new_tokens[1]
                       /\ res[k].prompt_length_to_skip = lp.input_length
                 /\ res[k].name = "Temperature" =>
                       res[k].value = c.temperature[1]
                 /\ res[k].name = "TopP" => res[k].value = c.top_p[1]
           /\ (c.top_p = Some(10) \/ (c.top_p # None /\ c.top_p[1] <= 0)) =>
                 \A k \in 1 .. Len(res) : res[k].name # "TopP"

\* C19's case: a config with min_new_tokens = 1, EOS ids, temperature 0.5 and
\* top_p 0.5 has been given its three stages.
C19_Witness ==
    /\ lp.called
    /\ lp.config.min_new_tokens = Some(1)
    /\ lp.config.temperature = Some(5) /\ lp.config.top_p = Some(5)
    /\ Len(lp.result) = 3

\* C20: the stream advances only on the consumer's pulls.  Nothing of the
\* body has run before the first pull; every choice out was asked for by a
\* pull; the forward pass of a step is not begun before the consumer has
\* received every choice of the steps before it and pulled once more; and
\* while no pull is being served there is no forward pass, no token
\* selection and no change of any history.
C20_PullDriven ==
    /\ [](pulls = 0 =>
             /\ pc \in { "new", "start" }
             /\ ~running /\ out = << >>
             /\ attempts = 0 /\ encoder_calls = 0)
    /\ [](/\ Len(out) <= pulls
          /\ running => Len(out) < pulls
          /\ pc \in { "encoder", "encoder_done", "loop_setup", "infer",
                       "step" } =>
                (running /\ pulls = Len(out) + 1)
          /\ pc \in { "infer", "step" } => ChoicesOfSteps(Steps))
    /\ [][ ~running =>
              /\ UNCHANGED << callVars, genVars, attempts, encoder_calls,
                              error >>
              /\ (pc' # pc => (pc = "new" /\ pc' = "start"))
              /\ (running' => pulls' = pulls + 1) ]_vars
    /\ [][ pulls' # pulls => (~running /\ running') ]_vars

\* C20's case: the consumer holds the only choice of step 1 of a replica
\* that goes on, and has not pulled again: the forward pass of step 2 has
\* not been attempted.
C20_Witness ==
    /\ pc = "emit" /\ ~running
    /\ n = 1 /\ Steps = 1 /\ status[0] = 1
    /\ Len(out) = pulls
    /\ attempts = 0

=============================================================================
